---- MODULE Spec2Model ----
(***************************************************************************)
(* Cable path tracing of dcim/models/cables.py: Cable, CableTermination    *)
(* and CablePath (from_origin, retrace, save and the accessors).           *)
(*                                                                         *)
(* The state is the cabling topology (cables with their A and B            *)
(* CableTerminations, one wireless link, one circuit with its A and Z      *)
(* terminations), the local variables of a running from_origin(), one      *)
(* stored CablePath row and what get_total_length() returned for it.       *)
(***************************************************************************)
EXTENDS Integers, Sequences, FiniteSets, TLC

\* Python's None, as an object no table holds.
None == [model |-> "none", pk |-> 0]

\* ------------------------------------------------------------------------
\* Bounds of the model
\* ------------------------------------------------------------------------

\* Cables installed at the same time.
MaxCables == 3

\* while-loop passes of from_origin() the model follows before it stops
\* stepping a walk (the code itself has no ceiling).
MaxHops == 4

\* ------------------------------------------------------------------------
\* The objects a Cable or WirelessLink can connect
\* ------------------------------------------------------------------------

Obj(m, k) == [model |-> m, pk |-> k]

IA == Obj("interface", 1)
IB == Obj("interface", 2)
F1 == Obj("frontport", 1)
F2 == Obj("frontport", 2)
F3 == Obj("frontport", 3)
F4 == Obj("frontport", 4)
F5 == Obj("frontport", 5)
F6 == Obj("frontport", 6)
R1 == Obj("rearport", 1)
R2 == Obj("rearport", 2)
R3 == Obj("rearport", 3)
R4 == Obj("rearport", 4)
R5 == Obj("rearport", 5)
CA == Obj("circuittermination", 1)
CZ == Obj("circuittermination", 2)

Interfaces == {IA, IB}
FrontPorts == {F1, F2, F3, F4, F5, F6}
RearPorts == {R1, R2, R3, R4, R5}
CircuitTerminations == {CA, CZ}
Terminations == Interfaces \cup FrontPorts \cup RearPorts \cup CircuitTerminations

ProviderNetwork == Obj("providernetwork", 1)
Site == Obj("site", 1)

\* FrontPort.rear_port / FrontPort.rear_port_position / RearPort.positions:
\* F1 is position 1 of the single-position R1, F2 and F4 are positions 3
\* and 1 of the four-position R2, F3 is position 3 of the four-position R3,
\* F5 is position 3 of the four-position R4, F6 is position 1 of the
\* four-position R5.
rear_port(fp) ==
    IF fp = F1 THEN R1 ELSE IF fp = F3 THEN R3 ELSE IF fp = F5 THEN R4
    ELSE IF fp = F6 THEN R5 ELSE R2
rear_port_position(fp) == IF fp \in {F1, F4, F6} THEN 1 ELSE 3
positions(rp) == IF rp = R1 THEN 1 ELSE 4

\* parent_object of a termination: the device (or circuit) that owns it.
parent_object(t) ==
    CASE t = IA -> "device-a"
      [] t = IB -> "device-b"
      [] t \in {F1, R1} -> "panel-1"
      [] t \in {F2, F4, R2} -> "panel-2"
      [] t \in {F3, R3} -> "panel-3"
      [] t \in {F5, R4} -> "panel-4"
      [] t \in {F6, R5} -> "panel-5"
      [] OTHER -> "circuit-1"

\* CircuitTermination.term_side
term_side(ct) == IF ct = CA THEN "A" ELSE "Z"

\* LinkStatusChoices
STATUS_CONNECTED == "connected"
STATUS_PLANNED == "planned"
LinkStatusChoices == {STATUS_CONNECTED, STATUS_PLANNED}

\* What the far side of the circuit looks like: no termination at all, a
\* termination at a site, or a termination attached to a provider network.
CircuitEnds == {"absent", "site", "provider_network"}

\* The cables of the inventory: the (A end, B end) termination lists the
\* Cable with that pk is created with. Cable 13 is given no B termination;
\* the B end of cable 15 holds FrontPorts of two RearPorts, that of cable 16
\* terminations of two types (nothing in Cable or CableTermination checks
\* what one end of a cable holds).
CableEnds ==
    << <<<<IA>>, <<F1>>>>, <<<<R1>>, <<R2>>>>, <<<<IB>>, <<F2>>>>,
       <<<<F1>>, <<R1>>>>, <<<<CA>>, <<CZ>>>>, <<<<IA>>, <<CA>>>>,
       <<<<CZ>>, <<IB>>>>, <<<<R2>>, <<IA>>>>, <<<<R2>>, <<R3>>>>,
       <<<<F3>>, <<IA>>>>, <<<<IB>>, <<IA>>>>, <<<<IB>>, <<F2, F4>>>>,
       <<<<IA>>, <<>>>>, <<<<IA>>, <<F4>>>>, <<<<R1>>, <<F2, F3>>>>,
       <<<<IB>>, <<IA, F1>>>> >>

\* A nullable decimal column: NULL, or a value.
Null == [null |-> TRUE, value |-> 0]
Decimal(v) == [null |-> FALSE, value |-> v]

\* The length and length_unit the Cable with that pk is created with
\* (length NULL goes with a blank unit).
CableLengths ==
    << <<Decimal(5), "m">>, <<Null, "">>, <<Decimal(2), "km">>,
       <<Decimal(1), "m">>, <<Null, "">>, <<Decimal(0), "m">>,
       <<Decimal(3), "m">>, <<Decimal(10), "m">>, <<Decimal(7), "m">>,
       <<Null, "">>, <<Decimal(4), "m">>, <<Decimal(1), "km">>,
       <<Decimal(6), "m">>, <<Decimal(8), "m">>, <<Null, "">>,
       <<Decimal(9), "m">> >>

\* utilities.utils.to_meters: a length in the given unit, in meters.
to_meters(length, unit) == IF unit = "km" THEN length * 1000 ELSE length

\* A trunk of nested panels, installed as a whole: Interface A - F4 | R2 -
\* F3 | R3 - R4 | F5 - R5 | F6 - R1 | F1, and Interface B - CZ. The (pk,
\* A end, B end) of its cables.
TrunkEnds ==
    << <<17, <<IA>>, <<F4>>>>, <<18, <<R2>>, <<F3>>>>, <<19, <<R3>>, <<R4>>>>,
       <<20, <<F5>>, <<R5>>>>, <<21, <<F6>>, <<R1>>>>, <<22, <<CZ>>, <<IB>>>> >>
TrunkPks == {TrunkEnds[i][1] : i \in 1..Len(TrunkEnds)}

VARIABLES
    cable,           \* the Cable table, pk -> row with its CableTerminations
    wireless,        \* the WirelessLink table, pk -> row
    circuit,         \* CircuitTermination -> "absent" / "site" / "provider_network"
    pc,              \* "idle", "loop" (at the while of from_origin), "returned",
                     \* "saving" (inside CablePath.save, the row written),
                     \* "length" (get_total_length has returned)
    caller,          \* who called from_origin: "call" or "retrace"
    cached,          \* the origin objects are the instances the link holds
    terminations,    \* from_origin: terminations
    path,            \* from_origin: path
    position_stack,  \* from_origin: position_stack
    is_complete,     \* from_origin: is_complete
    is_active,       \* from_origin: is_active
    is_split,        \* from_origin: is_split
    hops,            \* passes of the while loop made by the running walk
    seen,            \* (terminations, position_stack) of every earlier pass
    ret,             \* what from_origin returned
    cp,              \* the CablePath table, pk -> row
    path_ref,        \* the terminations whose _path points to the CablePath
    in_sync,         \* cp was retraced and the topology has not changed since
    total_length     \* what get_total_length returned

topology == <<cable, wireless, circuit>>
locals == <<terminations, path, position_stack, is_complete, is_active, is_split,
            hops, seen>>
vars == <<cable, wireless, circuit, pc, caller, cached, terminations,
          path, position_stack, is_complete, is_active, is_split, hops, seen,
          ret, cp, path_ref, in_sync, total_length>>

\* ------------------------------------------------------------------------
\* Path nodes (dcim.utils)
\* ------------------------------------------------------------------------

\* object_to_path_node: the (content type, pk) pair of an object.
object_to_path_node(obj) == <<obj.model, obj.pk>>

\* path_node_to_object: the object a node names.
path_node_to_object(node) == Obj(node[1], node[2])

\* [object_to_path_node(t) for t in objs]
Nodes(objs) == [i \in 1..Len(objs) |-> object_to_path_node(objs[i])]

\* flatten_path: the hop-groups of a path, concatenated.
RECURSIVE flatten_path(_)
flatten_path(p) == IF p = <<>> THEN <<>> ELSE Head(p) \o flatten_path(Tail(p))

Range(s) == {s[i] : i \in 1..Len(s)}

\* A queryset's rows in the order of their pk.
RECURSIVE OrderByPk(_)
OrderByPk(S) ==
    IF S = {} THEN <<>>
    ELSE LET m == CHOOSE x \in S : \A y \in S : x.pk <= y.pk
         IN <<m>> \o OrderByPk(S \ {m})

\* ------------------------------------------------------------------------
\* Lookups in the topology
\* ------------------------------------------------------------------------

CableObj(k) == Obj("cable", k)
WirelessObj(k) == Obj("wirelesslink", k)

\* The terminations of one end of a cable, in the order of their rows.
cable_terminations(k, end) == IF end = "A" THEN cable[k].a ELSE cable[k].b

\* The CableTermination rows (cable, cable_end, termination) of a set of
\* terminations.
CableTerminationRows(ts) ==
    UNION { { [cable |-> ke[1], cable_end |-> ke[2], termination |-> t] :
                  t \in Range(cable_terminations(ke[1], ke[2])) \cap ts } :
            ke \in (DOMAIN cable) \X {"A", "B"} }

\* termination.cable
cable_of(t) ==
    IF \E k \in DOMAIN cable : t \in Range(cable[k].a) \cup Range(cable[k].b)
    THEN CableObj(CHOOSE k \in DOMAIN cable : t \in Range(cable[k].a) \cup Range(cable[k].b))
    ELSE None

\* termination.link: the Cable, else the WirelessLink, else None.
link_of(t) ==
    IF cable_of(t) # None THEN cable_of(t)
    ELSE IF \E w \in DOMAIN wireless :
                t \in {wireless[w].interface_a, wireless[w].interface_b}
         THEN WirelessObj(CHOOSE w \in DOMAIN wireless :
                t \in {wireless[w].interface_a, wireless[w].interface_b})
         ELSE None

\* link.status
status_of(link) ==
    IF link.model = "cable" THEN cable[link.pk].status ELSE wireless[link.pk].status

\* ------------------------------------------------------------------------
\* CablePath.from_origin: one pass of the while loop
\* ------------------------------------------------------------------------

\* What a pass leaves behind: how the loop goes on ("continue", "break",
\* "return_none", "error") and the local variables.
Pass(ctl, terms, p, stack, complete, active, split) ==
    [ctl |-> ctl, terminations |-> terms, path |-> p, position_stack |-> stack,
     is_complete |-> complete, is_active |-> active, is_split |-> split]

\* What from_origin hands back: cls(path=..., is_complete=..., ...), None,
\* or an exception.
CablePath(p, complete, active, split) ==
    [kind |-> "CablePath", path |-> p, is_complete |-> complete,
     is_active |-> active, is_split |-> split]
NoResult(kind) ==
    [kind |-> kind, path |-> <<>>, is_complete |-> FALSE, is_active |-> FALSE,
     is_split |-> FALSE]

\* "Terminations must all be of the same type and belong to the same parent"
SameTypeAndParent(terms) ==
    \A i \in 2..Len(terms) :
        /\ terms[i].model = terms[1].model
        /\ parent_object(terms[i]) = parent_object(terms[1])

\* The path status taken from the link just recorded alone.
UpdateActive_LastLinkOnly(active, link) == status_of(link) = STATUS_CONNECTED

\* Step 3: the path status after recording the link.
UpdateActive(active, link) ==
    IF status_of(link) # STATUS_CONNECTED THEN FALSE ELSE active

\* Step 4, Cable: the CableTerminations of the near-end terminations.
local_cable_terminations(terms) ==
    CableTerminationRows({t \in Range(terms) : t.model = terms[1].model})

\* local_cable_terminations[0].cable_end, rows ordered by (cable, cable_end, pk)
local_cable_end(terms) ==
    LET rows == local_cable_terminations(terms)
        first == CHOOSE r \in rows : \A q \in rows :
                     \/ r.cable < q.cable
                     \/ r.cable = q.cable /\ (r.cable_end = "A" \/ q.cable_end = "B")
    IN first.cable_end

\* The end of the cable opposite to the local one.
remote_cable_end(local_end) == IF local_end = "B" THEN "A" ELSE "B"

\* Step 4: the far-end terminations of the link.
remote_terminations(link, terms) ==
    IF link.model = "cable"
    THEN cable_terminations(link.pk, remote_cable_end(local_cable_end(terms)))
    ELSE IF cached /\ wireless[link.pk].interface_a = terms[1]
         THEN <<wireless[link.pk].interface_b>>
         ELSE <<wireless[link.pk].interface_a>>

\* FrontPort.objects.filter(rear_port_id__in=rps, rear_port_position__in=poss)
front_ports(rps, poss) ==
    OrderByPk({fp \in FrontPorts :
                   rear_port(fp) \in rps /\ rear_port_position(fp) \in poss})

\* FrontPorts followed to their RearPorts with no check of how many there
\* are.
FrontPortHop_Unchecked(terms, remote, p, stack, active) ==
    Pass("continue", OrderByPk({rear_port(remote[i]) : i \in 1..Len(remote)}), p,
         stack, FALSE, active, FALSE)

\* Step 6, far end FrontPorts: follow them to their RearPorts.
FrontPortHop(terms, remote, p, stack, active) ==
    LET rear_ports == OrderByPk({rear_port(remote[i]) : i \in 1..Len(remote)})
    IN IF Len(rear_ports) > 1 /\ \E i \in 1..Len(rear_ports) : positions(rear_ports[i]) # 1
       THEN Pass("error", terms, p, stack, FALSE, active, FALSE)
       ELSE IF Len(rear_ports) = 1 /\ positions(rear_ports[1]) > 1
       THEN Pass("continue", rear_ports, p,
                 Append(stack, [i \in 1..Len(remote) |-> rear_port_position(remote[i])]),
                 FALSE, active, FALSE)
       ELSE Pass("continue", rear_ports, p, stack, FALSE, active, FALSE)

\* A RearPort far end with the position stack ignored: it always splits at
\* a single RearPort of several positions.
RearPortHop_IgnoresStack(terms, remote, p, stack, active) ==
    IF Len(remote) > 1 \/ positions(remote[1]) = 1
    THEN Pass("continue", front_ports(Range(remote), {1}), p, stack, FALSE, active, FALSE)
    ELSE Pass("break", terms, p, stack, FALSE, active, TRUE)

\* A RearPort far end that falls back to position 1 when the stack is empty.
RearPortHop_DefaultsToPosition1(terms, remote, p, stack, active) ==
    IF Len(remote) > 1 \/ positions(remote[1]) = 1 \/ stack = <<>>
    THEN Pass("continue", front_ports(Range(remote), {1}), p, stack, FALSE, active, FALSE)
    ELSE Pass("continue", front_ports({remote[1]}, Range(stack[Len(stack)])), p,
              SubSeq(stack, 1, Len(stack) - 1), FALSE, active, FALSE)

\* A RearPort far end that takes the oldest entry of the stack.
RearPortHop_PopsOldest(terms, remote, p, stack, active) ==
    IF Len(remote) > 1 \/ positions(remote[1]) = 1
    THEN Pass("continue", front_ports(Range(remote), {1}), p, stack, FALSE, active, FALSE)
    ELSE IF stack # <<>>
    THEN Pass("continue", front_ports({remote[1]}, Range(stack[1])), p,
              Tail(stack), FALSE, active, FALSE)
    ELSE Pass("break", terms, p, stack, FALSE, active, TRUE)

\* A RearPort far end that pops the stack and goes on at position 1.
RearPortHop_PopsToPosition1(terms, remote, p, stack, active) ==
    IF Len(remote) > 1 \/ positions(remote[1]) = 1
    THEN Pass("continue", front_ports(Range(remote), {1}), p, stack, FALSE, active, FALSE)
    ELSE IF stack # <<>>
    THEN Pass("continue", front_ports({remote[1]}, {1}), p,
              SubSeq(stack, 1, Len(stack) - 1), FALSE, active, FALSE)
    ELSE Pass("break", terms, p, stack, FALSE, active, TRUE)

\* Step 6, far end RearPorts: position 1, or the positions on top of the
\* stack, or a split.
RearPortHop(terms, remote, p, stack, active) ==
    IF Len(remote) > 1 \/ positions(remote[1]) = 1
    THEN Pass("continue", front_ports(Range(remote), {1}), p, stack, FALSE, active, FALSE)
    ELSE IF stack # <<>>
    THEN Pass("continue", front_ports({remote[1]}, Range(stack[Len(stack)])), p,
              SubSeq(stack, 1, Len(stack) - 1), FALSE, active, FALSE)
    ELSE Pass("break", terms, p, stack, FALSE, active, TRUE)

\* CircuitTermination.objects.filter(circuit=..., term_side=<other side>).first()
opposite_termination(ct) ==
    LET other == CHOOSE x \in CircuitTerminations : term_side(x) # term_side(ct)
    IN IF circuit[other] = "absent" THEN None ELSE other

\* The circuit has no termination on the other side, taken for an endpoint.
CircuitBreak_Complete(terms, p, stack, active) ==
    Pass("break", terms, p, stack, TRUE, active, FALSE)

\* "if circuit_termination is None: break"
CircuitBreak(terms, p, stack, active) ==
    Pass("break", terms, p, stack, FALSE, active, FALSE)

\* The site test without its "and not circuit_termination.cable".
TerminatesToSite_IgnoresCable(ct) == circuit[ct] = "site"

\* "elif circuit_termination.site and not circuit_termination.cable"
TerminatesToSite(ct) == circuit[ct] = "site" /\ cable_of(ct) = None

\* Step 6, far end CircuitTerminations: follow the circuit to its other side.
CircuitHop(terms, remote, p, stack, active) ==
    LET circuit_termination == opposite_termination(remote[1])
    IN IF \E i \in 2..Len(remote) : term_side(remote[i]) # term_side(remote[1])
       THEN Pass("error", terms, p, stack, FALSE, active, FALSE)
       ELSE IF circuit_termination = None
       THEN CircuitBreak(terms, p, stack, active)
       ELSE IF circuit[circuit_termination] = "provider_network"
       THEN Pass("break", terms,
                 p \o << <<object_to_path_node(circuit_termination)>>,
                         <<object_to_path_node(ProviderNetwork)>> >>,
                 stack, FALSE, active, FALSE)
       ELSE IF TerminatesToSite(circuit_termination)
       THEN Pass("break", terms,
                 p \o << <<object_to_path_node(circuit_termination)>>,
                         <<object_to_path_node(Site)>> >>,
                 stack, FALSE, active, FALSE)
       ELSE Pass("continue", <<circuit_termination>>, p, stack, FALSE, active, FALSE)

\* "Anything else marks the end of the path"
EndpointHop(terms, remote, p, stack, active) ==
    Pass("break", terms, p, stack, TRUE, active, FALSE)

\* Step 6 taking a far end with no termination for the end of the path.
NextHop_EmptyIsEndpoint(terms, remote, p, stack, active) ==
    IF remote = <<>> THEN EndpointHop(terms, remote, p, stack, active)
    ELSE IF remote[1] \in FrontPorts THEN FrontPortHop(terms, remote, p, stack, active)
    ELSE IF remote[1] \in RearPorts THEN RearPortHop(terms, remote, p, stack, active)
    ELSE IF remote[1] \in CircuitTerminations THEN CircuitHop(terms, remote, p, stack, active)
    ELSE EndpointHop(terms, remote, p, stack, active)

\* Step 6: the next-hop terminations; remote_terminations[0] raises
\* IndexError when the far end has no termination.
NextHop(terms, remote, p, stack, active) ==
    IF remote = <<>> THEN Pass("error", terms, p, stack, FALSE, active, FALSE)
    ELSE IF remote[1] \in FrontPorts THEN FrontPortHop(terms, remote, p, stack, active)
    ELSE IF remote[1] \in RearPorts THEN RearPortHop(terms, remote, p, stack, active)
    ELSE IF remote[1] \in CircuitTerminations THEN CircuitHop(terms, remote, p, stack, active)
    ELSE EndpointHop(terms, remote, p, stack, active)

\* Step 5 left out: the far end is not recorded.
RecordFarEnd_Skipped(p, remote) == p

\* Step 5: record the far-end termination object(s).
RecordFarEnd(p, remote) == Append(p, Nodes(remote))

\* Steps 3 to 6, once a link was found.
CrossLink(terms, link, p, stack, active) ==
    LET p3 == Append(p, <<object_to_path_node(link)>>)
        act == UpdateActive(active, link)
    IN IF link.model = "cable" /\
          \E r \in local_cable_terminations(terms) : r.cable_end # local_cable_end(terms)
       THEN Pass("error", terms, p3, stack, FALSE, act, FALSE)
       ELSE LET remote == remote_terminations(link, terms)
                p5 == RecordFarEnd(p3, remote)
            IN NextHop(terms, remote, p5, stack, act)

\* The test for the start of the path, always passed.
AtStartOfPath_Always(p) == TRUE

\* "len(path) == 1": this is the start of the path.
AtStartOfPath(p) == Len(p) = 1

\* The body of "while terminations:".
LoopBody(terms, p, stack, active) ==
    LET p1 == Append(p, Nodes(terms))
        link == link_of(terms[1])
    IN IF ~SameTypeAndParent(terms)
       THEN Pass("error", terms, p, stack, FALSE, active, FALSE)
       ELSE IF \E i \in 2..Len(terms) : link_of(terms[i]) # link
       THEN Pass("error", terms, p1, stack, FALSE, active, FALSE)
       ELSE IF link = None /\ AtStartOfPath(p1)
       THEN Pass("return_none", terms, p1, stack, FALSE, active, FALSE)
       ELSE IF link = None
       THEN Pass("break", terms, p1, stack, FALSE, active, FALSE)
       ELSE CrossLink(terms, link, p1, stack, active)

\* What from_origin hands back after the pass that ended the loop.
Result(r) ==
    IF r.ctl = "return_none" THEN NoResult("None")
    ELSE IF r.ctl = "error" THEN NoResult("Error")
    ELSE CablePath(r.path, r.is_complete, r.is_active, r.is_split)

\* "while terminations:" run from a pass to its end, at most n passes long.
RECURSIVE WhileTerminations(_, _, _, _, _)
WhileTerminations(terms, p, stack, active, n) ==
    LET r == LoopBody(terms, p, stack, active)
    IN IF r.ctl = "continue" /\ r.terminations # <<>> /\ n > 1
       THEN WhileTerminations(r.terminations, r.path, r.position_stack, r.is_active, n - 1)
       ELSE r

\* CablePath.get_cable_ids: the pks of the Cable nodes, in path order.
RECURSIVE get_cable_ids(_)
get_cable_ids(nodes) ==
    IF nodes = <<>> THEN <<>>
    ELSE (IF Head(nodes)[1] = "cable" THEN <<Head(nodes)[2]>> ELSE <<>>)
            \o get_cable_ids(Tail(nodes))

\* ------------------------------------------------------------------------
\* The state machine
\* ------------------------------------------------------------------------

\* Cable.save(): the row with the length in meters, if a length is given.
Cable_save(row) ==
    [row EXCEPT !.abs_length =
        IF ~row.length.null /\ row.length.value # 0 /\ row.length_unit # ""
        THEN Decimal(to_meters(row.length.value, row.length_unit))
        ELSE Null]

\* get_total_length was not called.
NoLength == [total_length |-> Null, is_definitive |-> FALSE, called |-> FALSE]

\* The local variables of from_origin as it starts (lines 390-394).
StartLocals(terms) ==
    /\ terminations' = terms
    /\ path' = <<>>
    /\ position_stack' = <<>>
    /\ is_complete' = FALSE
    /\ is_active' = TRUE
    /\ is_split' = FALSE
    /\ hops' = 0
    /\ seen' = {}

\* No from_origin is running: its frame is gone.
NoLocals ==
    /\ terminations' = <<>>
    /\ path' = <<>>
    /\ position_stack' = <<>>
    /\ is_complete' = FALSE
    /\ is_active' = FALSE
    /\ is_split' = FALSE
    /\ hops' = 0
    /\ seen' = {}
    /\ cached' = FALSE
    /\ caller' = "none"
    /\ ret' = NoResult("none")

Init ==
    /\ cable = <<>>
    /\ wireless = <<>>
    /\ circuit \in {c \in [CircuitTerminations -> CircuitEnds] : c[CA] = "site"}
    /\ pc = "idle"
    /\ caller = "none"
    /\ cached = FALSE
    /\ terminations = <<>>
    /\ path = <<>>
    /\ position_stack = <<>>
    /\ is_complete = FALSE
    /\ is_active = FALSE
    /\ is_split = FALSE
    /\ hops = 0
    /\ seen = {}
    /\ ret = NoResult("none")
    /\ cp = <<>>
    /\ path_ref = {}
    /\ in_sync = FALSE
    /\ total_length = NoLength

\* The state with the trunk installed, each of its cables with either
\* status, and nothing else done.
TrunkInit ==
    /\ \E st \in [TrunkPks -> LinkStatusChoices] :
          cable = [k \in TrunkPks |->
                      LET e == CHOOSE i \in 1..Len(TrunkEnds) : TrunkEnds[i][1] = k
                      IN Cable_save([status |-> st[k], a |-> TrunkEnds[e][2],
                                     b |-> TrunkEnds[e][3], length |-> Null,
                                     length_unit |-> "", abs_length |-> Null])]
    /\ wireless = <<>>
    /\ circuit = [t \in CircuitTerminations |-> "site"]
    /\ pc = "idle"
    /\ caller = "none"
    /\ cached = FALSE
    /\ terminations = <<>>
    /\ path = <<>>
    /\ position_stack = <<>>
    /\ is_complete = FALSE
    /\ is_active = FALSE
    /\ is_split = FALSE
    /\ hops = 0
    /\ seen = {}
    /\ ret = NoResult("none")
    /\ cp = <<>>
    /\ path_ref = {}
    /\ in_sync = FALSE
    /\ total_length = NoLength

\* The termination exists (a circuit may lack one of its terminations).
Exists(t) == t \in CircuitTerminations => circuit[t] # "absent"

\* CableTermination.clean: "Circuit terminations attached to a provider
\* network may not be cabled"; unique_termination: one cable per termination.
CanTerminate(t) ==
    /\ Exists(t)
    /\ t \in CircuitTerminations => circuit[t] # "provider_network"
    /\ link_of(t) = None

\* The topology may be edited: no walk is running, and the stored path (if
\* any) was retraced after the last edit.
MayEdit == pc = "idle" /\ (cp = <<>> \/ in_sync)

\* Cable(a_terminations=..., b_terminations=..., status=...).save()
CreateCable ==
    /\ MayEdit
    /\ Cardinality(DOMAIN cable) < MaxCables
    /\ \E k \in (1..Len(CableEnds)) \ DOMAIN cable, st \in LinkStatusChoices :
          /\ \A t \in Range(CableEnds[k][1]) \cup Range(CableEnds[k][2]) : CanTerminate(t)
          /\ cable' = cable @@
                (k :> Cable_save([status |-> st, a |-> CableEnds[k][1],
                                  b |-> CableEnds[k][2],
                                  length |-> CableLengths[k][1],
                                  length_unit |-> CableLengths[k][2],
                                  abs_length |-> Null]))
    /\ in_sync' = FALSE
    /\ UNCHANGED <<wireless, circuit, pc, caller, cached, locals, ret, cp, path_ref,
                 total_length>>

\* Cable.delete(): its CableTerminations go with it (on_delete=CASCADE).
DeleteCable ==
    /\ MayEdit
    /\ \E k \in DOMAIN cable :
          cable' = IF DOMAIN cable = {k} THEN <<>>
                   ELSE [j \in DOMAIN cable \ {k} |-> cable[j]]
    /\ in_sync' = FALSE
    /\ UNCHANGED <<wireless, circuit, pc, caller, cached, locals, ret, cp, path_ref,
                 total_length>>

\* WirelessLink(interface_a=IA, interface_b=IB, status=...).save()
CreateWirelessLink ==
    /\ MayEdit
    /\ wireless = <<>>
    /\ link_of(IA) = None /\ link_of(IB) = None
    /\ \E st \in LinkStatusChoices :
          wireless' = (1 :> [status |-> st, interface_a |-> IA, interface_b |-> IB])
    /\ in_sync' = FALSE
    /\ UNCHANGED <<cable, circuit, pc, caller, cached, locals, ret, cp, path_ref,
                 total_length>>

\* The origins from_origin is called with: each termination alone, the two
\* FrontPorts of R2, and the groups a caller should not pass: no termination
\* at all, terminations of two types, terminations of two parents.
OriginGroups ==
    {<<t>> : t \in {x \in Terminations : Exists(x)}}
        \cup {<<F2, F4>>, <<>>, <<IA, F1>>, <<IA, IB>>}

\* CablePath.from_origin(terminations), called to create a path.
from_origin ==
    /\ pc = "idle"
    /\ cp = <<>>
    /\ \E origin \in OriginGroups, c \in BOOLEAN :
          /\ c => (origin # <<>> /\ link_of(origin[1]).model = "wirelesslink")
          /\ StartLocals(origin)
          /\ cached' = c
          \* "while terminations:" is not entered with no termination, and
          \* "return cls(...)" follows
          /\ pc' = IF origin = <<>> THEN "returned" ELSE "loop"
          /\ ret' = IF origin = <<>> THEN CablePath(<<>>, FALSE, TRUE, FALSE) ELSE ret
    /\ caller' = "call"
    /\ UNCHANGED <<topology, cp, path_ref, in_sync, total_length>>

\* One pass of "while terminations:", up to the return it may reach.
from_origin_loop ==
    /\ pc = "loop"
    /\ hops < MaxHops
    /\ LET r == LoopBody(terminations, path, position_stack, is_active)
           go_on == r.ctl = "continue" /\ r.terminations # <<>>
       IN /\ terminations' = r.terminations
          /\ path' = r.path
          /\ position_stack' = r.position_stack
          /\ is_complete' = r.is_complete
          /\ is_active' = r.is_active
          /\ is_split' = r.is_split
          /\ pc' = IF go_on THEN "loop" ELSE "returned"
          /\ ret' = IF go_on THEN ret
                    ELSE IF r.ctl = "return_none" THEN NoResult("None")
                    ELSE IF r.ctl = "error" THEN NoResult("Error")
                    ELSE CablePath(r.path, r.is_complete, r.is_active, r.is_split)
    /\ hops' = hops + 1
    /\ seen' = seen \cup {<<terminations, position_stack>>}
    /\ UNCHANGED <<topology, caller, cached, cp, path_ref, in_sync, total_length>>

\* CablePath.origins
origins(row) == [i \in 1..Len(row.path[1]) |-> path_node_to_object(row.path[1][i])]

\* save() storing the row without recomputing its flattened nodes.
save_KeepsNodes(row) == row

\* CablePath.save(): the row with its flattened nodes.
save(row) == [row EXCEPT !.nodes = flatten_path(row.path)]

\* retrace() adding the new hop-groups to the stored ones.
Assign_Accumulates(row, new) ==
    [row EXCEPT !.path = row.path \o new.path, !.is_complete = new.is_complete,
                !.is_active = new.is_active, !.is_split = new.is_split]

\* retrace() taking the new path and leaving the flags of the old trace.
Assign_PathOnly(row, new) == [row EXCEPT !.path = new.path]

\* retrace(): the row with the fields of the new trace.
Assign(row, new) ==
    [row EXCEPT !.path = new.path, !.is_complete = new.is_complete,
                !.is_active = new.is_active, !.is_split = new.is_split]

\* A new CablePath instance as from_origin builds it.
NewRow(new) ==
    [path |-> new.path, is_complete |-> new.is_complete, is_active |-> new.is_active,
     is_split |-> new.is_split, nodes |-> <<>>]

\* The caller saves the path from_origin returned: CablePath.save() up to
\* and with super().save(), which writes the row.
save_new ==
    /\ pc = "returned"
    /\ caller = "call"
    /\ ret.kind = "CablePath"
    /\ cp' = (1 :> save(NewRow(ret)))
    /\ in_sync' = FALSE
    /\ pc' = "saving"
    /\ NoLocals
    /\ UNCHANGED <<topology, path_ref, total_length>>

\* CablePath.save() after super().save(): the _path of the origins is set
\* to the row, by a statement of its own.
update_origins ==
    /\ pc = "saving"
    \* self.origins[0] raises IndexError for a path with no hop-group
    /\ path_ref' = IF cp[1].path = <<>> THEN path_ref
                   ELSE path_ref \cup Range(origins(cp[1]))
    /\ pc' = "idle"
    /\ UNCHANGED <<topology, caller, cached, locals, ret, cp, in_sync, total_length>>

\* The caller drops what from_origin returned (None, an exception, a trace
\* that is only displayed).
discard ==
    /\ pc = "returned"
    /\ caller = "call"
    /\ pc' = "idle"
    /\ NoLocals
    /\ UNCHANGED <<topology, cp, path_ref, in_sync, total_length>>

\* CablePath.retrace(), up to its call of from_origin.
retrace ==
    /\ pc = "idle"
    /\ cp # <<>>
    \* self.origins raises IndexError for a path with no hop-group
    /\ cp[1].path # <<>>
    /\ StartLocals(origins(cp[1]))
    /\ cached' = FALSE
    /\ caller' = "retrace"
    /\ pc' = "loop"
    /\ UNCHANGED <<topology, ret, cp, path_ref, in_sync, total_length>>

\* CablePath.retrace(), from the return of from_origin on.
retrace_return ==
    /\ pc = "returned"
    /\ caller = "retrace"
    /\ IF ret.kind = "Error"
       THEN /\ UNCHANGED <<cp, path_ref, in_sync>>
            /\ pc' = "idle"
       ELSE /\ in_sync' = TRUE
            /\ IF ret.kind = "CablePath"
               THEN /\ cp' = [cp EXCEPT ![1] = save(Assign(cp[1], ret))]
                    /\ UNCHANGED path_ref
                    /\ pc' = "saving"
               ELSE /\ cp' = <<>>
                    /\ path_ref' = {}
                    /\ pc' = "idle"
    /\ NoLocals
    /\ UNCHANGED <<topology, total_length>>

\* The sum of the _abs_length of the Cable rows with the pks in S.
RECURSIVE Sum(_)
Sum(S) ==
    IF S = {} THEN 0
    ELSE LET k == CHOOSE x \in S : TRUE
         IN cable[k].abs_length.value + Sum(S \ {k})

\* CablePath.get_total_length() on the stored row.
get_total_length ==
    /\ pc = "idle"
    /\ cp # <<>>
    /\ LET cable_ids == get_cable_ids(cp[1].nodes)
           cables == {k \in DOMAIN cable \cap Range(cable_ids) :
                         ~cable[k].abs_length.null}
       IN total_length' =
             [total_length |-> IF cables = {} THEN Null ELSE Decimal(Sum(cables)),
              is_definitive |-> Cardinality(cables) = Len(cable_ids),
              called |-> TRUE]
    /\ pc' = "length"
    /\ UNCHANGED <<topology, caller, cached, locals, ret, cp, path_ref, in_sync>>

\* The caller has read the tuple get_total_length returned.
length_read ==
    /\ pc = "length"
    /\ total_length' = NoLength
    /\ pc' = "idle"
    /\ UNCHANGED <<topology, caller, cached, locals, ret, cp, path_ref, in_sync>>

Next ==
    \/ CreateCable
    \/ DeleteCable
    \/ CreateWirelessLink
    \/ from_origin
    \/ from_origin_loop
    \/ save_new
    \/ update_origins
    \/ discard
    \/ retrace
    \/ retrace_return
    \/ get_total_length
    \/ length_read

Spec == Init /\ [][Next]_vars

\* Traces over the installed trunk, with no edit of the topology.
TrunkNext ==
    \/ from_origin
    \/ from_origin_loop
    \/ discard

TrunkSpec == TrunkInit /\ [][TrunkNext]_vars

\* ------------------------------------------------------------------------
\* Properties
\* ------------------------------------------------------------------------

\* from_origin has just returned a CablePath.
Returned == pc = "returned" /\ ret.kind = "CablePath"

Last(q) == q[Len(q)]

IsLinkNode(n) == n[1] \in {"cable", "wirelesslink"}
IsLinkGroup(g) == g # <<>> /\ \A i \in 1..Len(g) : IsLinkNode(g[i])
IsTerminationGroup(g) == \A i \in 1..Len(g) : ~IsLinkNode(g[i])

\* The terminations of a group are of one type and of one parent.
OneTypeOneParent(g) ==
    \A i, j \in 1..Len(g) :
        g[i].model = g[j].model /\ parent_object(g[i]) = parent_object(g[j])

\* The terminations of the coming pass are not all attached to one link
\* (some to another link, or some to none).
LinkMismatch ==
    /\ pc = "loop"
    /\ OneTypeOneParent(terminations)
    /\ \E i \in 1..Len(terminations) :
          link_of(terminations[i]) # link_of(terminations[1])

\* The coming pass of the loop crosses a link: its terminations are a
\* group of one type and one parent, all attached to the same link.
CrossesLink ==
    /\ pc = "loop"
    /\ terminations # <<>>
    /\ OneTypeOneParent(terminations)
    /\ ~LinkMismatch
    /\ link_of(terminations[1]) # None

\* The far end of that link.
FarEnd == remote_terminations(link_of(terminations[1]), terminations)

\* The pass of the loop is taken.
PassTaken == pc = "loop" /\ hops' = hops + 1

\* C1: every CablePath from_origin returns, and every stored row, has
\* is_active => is_complete.
C1_ActiveImpliesComplete ==
    /\ Returned => (ret.is_active => ret.is_complete)
    /\ \A k \in DOMAIN cp : cp[k].is_active => cp[k].is_complete

\* C2: from_origin terminates. A walk never stands at the head of the loop
\* with the terminations and the position stack of an earlier pass (the loop
\* is deterministic, so from there it would repeat forever); a hop-count
\* ceiling would have ended such a walk with an error.
C2_Terminates ==
    pc = "loop" => <<terminations, position_stack>> \notin seen

\* C3, as claimed: the hop-groups of a returned path strictly alternate
\* termination set / link set, starting with a termination set, and every
\* link hop-group holds one link.
C3_StrictAlternation ==
    Returned =>
        \A i \in 1..Len(ret.path) :
            IF i % 2 = 1 THEN IsTerminationGroup(ret.path[i])
            ELSE IsLinkGroup(ret.path[i]) /\ Len(ret.path[i]) = 1

\* C3, amended: the first hop-group of a returned path, when it has one, is
\* a termination set; every link hop-group holds exactly one link, is the
\* middle of a triple (near end, link, far end) and so stands between two
\* termination hop-groups.
C3_LinkBetweenTerminations ==
    Returned =>
        /\ ret.path # <<>> => IsTerminationGroup(ret.path[1])
        /\ \A i \in 1..Len(ret.path) :
              \/ IsTerminationGroup(ret.path[i]) /\ ret.path[i] # <<>>
              \/ /\ IsLinkGroup(ret.path[i])
                 /\ Len(ret.path[i]) = 1
                 /\ i % 3 = 2
                 /\ i < Len(ret.path)
                 /\ IsTerminationGroup(ret.path[i - 1])
                 /\ IsTerminationGroup(ret.path[i + 1])

\* C3, witness: a returned path with two adjacent termination hop-groups
\* across a pass-through hop.
C3_Witness ==
    /\ Returned
    /\ Len(ret.path) >= 6
    /\ IsTerminationGroup(ret.path[3]) /\ IsTerminationGroup(ret.path[4])
    /\ IsLinkGroup(ret.path[5])

\* The topology of the scenario: Interface A -Cable1- F1 | R1 -Cable2- R2 |
\* F2 -Cable3- Interface B, all cables connected, traced from Interface A.
C4_Scenario ==
    /\ {1, 2, 3} \subseteq DOMAIN cable
    /\ \A k \in {1, 2, 3} : cable[k].status = STATUS_CONNECTED
    /\ Returned
    /\ ret.path # <<>>
    /\ ret.path[1] = <<object_to_path_node(IA)>>

\* C4, as claimed: in the scenario the path is complete, not split, holds
\* Cable1, Cable2, Cable3 in that order and ends at Interface B.
C4_ScenarioComplete ==
    C4_Scenario =>
        /\ ret.is_complete
        /\ ~ret.is_split
        /\ get_cable_ids(flatten_path(ret.path)) = <<1, 2, 3>>
        /\ Last(ret.path) = <<object_to_path_node(IB)>>

\* C4, amended: in the scenario the walk splits at R2 (F1 sits on the
\* single-position R1, so no position is pushed): the path is not complete,
\* is split, holds Cable1 and Cable2 in that order and ends at RearPort R2.
C4_ScenarioSplits ==
    C4_Scenario =>
        /\ ~ret.is_complete
        /\ ret.is_split
        /\ get_cable_ids(flatten_path(ret.path)) = <<1, 2>>
        /\ Last(ret.path) = <<object_to_path_node(R2)>>
        /\ Len(ret.path) = 6

\* C4, witness: the scenario was traced from Interface A.
C4_Witness == C4_Scenario

\* The coming pass reaches a single RearPort of several positions with an
\* empty position stack.
SplitCase ==
    /\ CrossesLink
    /\ Len(FarEnd) = 1
    /\ FarEnd[1] \in RearPorts
    /\ positions(FarEnd[1]) > 1
    /\ position_stack = <<>>

\* A stored split path ends, also in its flattened form, at a RearPort of
\* several positions, and is not complete.
SplitRows ==
    \A k \in DOMAIN cp :
        cp[k].is_split =>
            /\ ~cp[k].is_complete
            /\ cp[k].nodes # <<>>
            /\ Last(cp[k].nodes) = Last(Last(cp[k].path))
            /\ path_node_to_object(Last(cp[k].nodes)) \in RearPorts
            /\ positions(path_node_to_object(Last(cp[k].nodes))) > 1

\* C5: a pass whose far end is a single RearPort of several positions, met
\* with an empty position stack, returns a path with is_split and not
\* is_complete whose last node is that RearPort; no other pass sets is_split.
C5_SplitAtRearPort ==
    [][ /\ PassTaken =>
            /\ SplitCase =>
                  /\ pc' = "returned"
                  /\ ret'.kind = "CablePath"
                  /\ ret'.is_split
                  /\ ~ret'.is_complete
                  /\ Last(ret'.path) = Nodes(FarEnd)
                  /\ Last(flatten_path(ret'.path)) = object_to_path_node(FarEnd[1])
            /\ (is_split' \/ ret'.is_split) => SplitCase
        /\ SplitRows' ]_vars

\* C5, witness: a path split at R2 was returned.
C5_Witness ==
    /\ Returned
    /\ ret.is_split
    /\ Last(ret.path) = <<object_to_path_node(R2)>>

\* C6: from_origin returns None exactly when the origin has no link; a
\* missing link met later gives a path that is not complete and ends with
\* the unlinked termination set.
C6_NoneOnlyAtOrigin ==
    (pc = "returned" /\ ret.kind # "Error" /\ path # <<>>) =>
        /\ ret.kind = "None" <=> link_of(path_node_to_object(path[1][1])) = None
        /\ (ret.kind = "CablePath" /\ terminations # <<>>
                /\ link_of(terminations[1]) = None) =>
              /\ ~ret.is_complete
              /\ Len(ret.path) > 1
              /\ Last(ret.path) = Nodes(terminations)

\* C6, witness: a walk met a missing link after it crossed a link.
C6_Witness ==
    /\ Returned
    /\ terminations # <<>>
    /\ link_of(terminations[1]) = None

\* The status of the link a node names.
NodeStatus(n) == status_of(path_node_to_object(n))
HasInactiveLink(p) ==
    \E i \in 1..Len(p) : IsLinkGroup(p[i]) /\ NodeStatus(p[i][1]) # STATUS_CONNECTED

\* The last hop-group is the far end of a link and, going by its first
\* termination, an endpoint.
EndsAtEndpoint(p) ==
    /\ Len(p) >= 3
    /\ IsLinkGroup(p[Len(p) - 1])
    /\ path_node_to_object(Last(p)[1]) \in Interfaces

\* C7: a path that holds a link whose status is not "connected" is not
\* active, whatever the status of the links crossed after it, and is complete
\* exactly as it would be otherwise: when it ends at an endpoint.
C7_InactiveLink ==
    (Returned /\ HasInactiveLink(ret.path)) =>
        /\ ~ret.is_active
        /\ ret.is_complete <=> EndsAtEndpoint(ret.path)

\* C7, witness: a complete path through a planned cable followed by a
\* connected one.
C7_Witness ==
    /\ Returned
    /\ ret.is_complete
    /\ ~ret.is_active
    /\ Len(ret.path) >= 6
    /\ NodeStatus(ret.path[2][1]) = STATUS_PLANNED
    /\ NodeStatus(ret.path[5][1]) = STATUS_CONNECTED

\* The coming pass reaches a CircuitTermination.
CircuitCase ==
    /\ CrossesLink
    /\ FarEnd # <<>>
    /\ FarEnd[1] \in CircuitTerminations

\* C8: a pass whose far end is a CircuitTermination with no termination on
\* the other side of its circuit returns a path, not complete and not split,
\* whose last hop-group is that CircuitTermination group.
C8_CircuitBreak ==
    [][ (PassTaken /\ CircuitCase /\ opposite_termination(FarEnd[1]) = None) =>
            /\ pc' = "returned"
            /\ ret'.kind = "CablePath"
            /\ ~ret'.is_complete
            /\ ~ret'.is_split
            /\ ret'.path = path \o <<Nodes(terminations),
                                     <<object_to_path_node(link_of(terminations[1]))>>,
                                     Nodes(FarEnd)>> ]_vars

\* C8, witness: a walk halted at the A termination of a circuit that has
\* no Z termination.
C8_Witness ==
    /\ Returned
    /\ circuit[CZ] = "absent"
    /\ Len(ret.path) = 3
    /\ Last(ret.path) = <<object_to_path_node(CA)>>

\* The hop-groups a pass records up to the far end.
Triple ==
    <<Nodes(terminations), <<object_to_path_node(link_of(terminations[1]))>>,
      Nodes(FarEnd)>>

\* C9: when the termination on the other side of the circuit is attached to
\* a provider network, or has a site and no cable, the pass appends that
\* termination and the provider network (or site) and returns a path that
\* is not complete and not split; when it has a cable the walk goes on from it.
C9_CircuitFarSide ==
    [][ (PassTaken /\ CircuitCase /\ opposite_termination(FarEnd[1]) # None) =>
            LET ct == opposite_termination(FarEnd[1])
                halted(endpoint) ==
                    /\ pc' = "returned"
                    /\ ret'.kind = "CablePath"
                    /\ ~ret'.is_complete
                    /\ ~ret'.is_split
                    /\ ret'.path = path \o Triple \o
                          << <<object_to_path_node(ct)>>,
                             <<object_to_path_node(endpoint)>> >>
            IN /\ circuit[ct] = "provider_network" => halted(ProviderNetwork)
               /\ (circuit[ct] = "site" /\ cable_of(ct) = None) => halted(Site)
               /\ (circuit[ct] = "site" /\ cable_of(ct) # None) =>
                     /\ pc' = "loop"
                     /\ terminations' = <<ct>>
                     /\ path' = path \o Triple ]_vars

\* C9, witness: a walk went on from the cabled far side of a circuit.
C9_Witness ==
    /\ pc = "loop"
    /\ terminations = <<CZ>>
    /\ Len(path) = 3
    /\ path[3] = <<object_to_path_node(CA)>>

\* C10: a retrace of a row that was retraced before, with no change of the
\* topology in between, leaves the row (path, flags, flattened nodes) as it is.
C10_RetraceIdempotent ==
    [][ (pc = "returned" /\ caller = "retrace" /\ in_sync) => cp' = cp ]_vars

\* C10, witness: a second retrace with no topology change in between
\* returned a path.
C10_Witness ==
    /\ Returned
    /\ caller = "retrace"
    /\ in_sync
    /\ Len(ret.path) >= 6

\* from_origin(origin) run afresh on the topology as it is, the way retrace
\* calls it.
FreshTrace(origin) ==
    Result(WhileTerminations(origin, <<>>, <<>>, TRUE, MaxHops))

\* What the claim says of the step that ends a retrace: the stored row is
\* deleted exactly when the origin has no link; otherwise it keeps its pk
\* and its origin hop-group, and its path, flags and flattened nodes are
\* those of a fresh from_origin of that origin on the topology as it is,
\* with nothing of the earlier trace left over.
DeletedOrReplaced ==
    LET origin == origins(cp[1])
        fresh == FreshTrace(origin)
    IN IF link_of(origin[1]) = None
       THEN cp' = <<>> /\ fresh.kind = "None"
       ELSE /\ fresh.kind = "CablePath"
            /\ DOMAIN cp' = DOMAIN cp
            /\ cp'[1].path = fresh.path
            /\ cp'[1].path[1] = cp[1].path[1]
            /\ cp'[1].is_complete = fresh.is_complete
            /\ cp'[1].is_active = fresh.is_active
            /\ cp'[1].is_split = fresh.is_split
            /\ cp'[1].nodes = flatten_path(fresh.path)

RECURSIVE NodeCount(_, _)
NodeCount(p, i) == IF i = 0 THEN 0 ELSE NodeCount(p, i - 1) + Len(p[i])

\* C12: the flattened nodes of every stored row are the hop-groups of its
\* path laid end to end, in order: as many nodes as the hop-groups hold, the
\* j-th node of hop-group i standing right after the nodes of the hop-groups
\* before it.
C12_NodesAreFlattenedPath ==
    \A k \in DOMAIN cp :
        /\ Len(cp[k].nodes) = NodeCount(cp[k].path, Len(cp[k].path))
        /\ \A i \in 1..Len(cp[k].path) :
              \A j \in 1..Len(cp[k].path[i]) :
                  cp[k].nodes[NodeCount(cp[k].path, i - 1) + j] = cp[k].path[i][j]

\* C12, witness: a stored row whose path was replaced by a retrace, with a
\* hop-group of two nodes in it.
C12_Witness ==
    /\ cp # <<>>
    /\ in_sync
    /\ Len(cp[1].path) >= 3
    /\ \E i \in 1..Len(cp[1].path) : Len(cp[1].path[i]) = 2

\* C13: whenever a CablePath row is stored, the _path of each of its origin
\* terminations points to it: no state shows the row without the
\* back-reference.
C13_SaveAtomic ==
    \A k \in DOMAIN cp :
        cp[k].path # <<>> => Range(origins(cp[k])) \subseteq path_ref

\* The cables the stored row names, and among them those with a recorded
\* length.
PathCables == Range(get_cable_ids(cp[1].nodes))
Recorded(k) == k \in DOMAIN cable /\ ~cable[k].length.null

\* The sum of the lengths of the cables in S, each in meters.
RECURSIVE NormalizedSum(_)
NormalizedSum(S) ==
    IF S = {} THEN 0
    ELSE LET k == CHOOSE x \in S : TRUE
         IN to_meters(cable[k].length.value, cable[k].length_unit)
               + NormalizedSum(S \ {k})

\* C14: get_total_length says the length is definitive exactly when every
\* cable of the path has a recorded length, and its total is the sum of the
\* lengths, in meters, of the cables that have one (no total standing for a
\* sum of nothing).
C14_TotalLength ==
    pc = "length" =>
        /\ total_length.is_definitive <=> \A k \in PathCables : Recorded(k)
        /\ total_length.total_length.value =
              NormalizedSum({k \in PathCables : Recorded(k)})

\* C15: from_origin called with no termination, with terminations of
\* several types or with terminations of several parents ends with an error
\* and returns no CablePath.
C15_RejectsInvalidOrigin ==
    [][ /\ (pc = "idle" /\ caller' = "call" /\ terminations' = <<>>) =>
              (pc' = "returned" /\ ret'.kind = "Error")
        /\ (pc = "loop" /\ hops = 0 /\ ~OneTypeOneParent(terminations)) =>
              (pc' = "returned" /\ ret'.kind = "Error") ]_vars

\* The coming pass reaches FrontPorts of several RearPorts, one of them with
\* more than one position.
FanoutMismatch ==
    /\ CrossesLink
    /\ FarEnd # <<>>
    /\ \A i \in 1..Len(FarEnd) : FarEnd[i] \in FrontPorts
    /\ LET rps == {rear_port(FarEnd[i]) : i \in 1..Len(FarEnd)}
       IN Cardinality(rps) > 1 /\ \E rp \in rps : positions(rp) > 1

\* C16: a pass that meets terminations on different links (or some linked,
\* some not), or FrontPorts of several RearPorts of which one has several
\* positions, ends from_origin with an error and no path; a retrace whose
\* trace ended with an error leaves the stored row and the back-references
\* as they are.
C16_IntegrityError ==
    [][ /\ (PassTaken /\ (LinkMismatch \/ FanoutMismatch)) =>
              (pc' = "returned" /\ ret'.kind = "Error")
        /\ (pc = "returned" /\ caller = "retrace" /\ ret.kind = "Error") =>
              (cp' = cp /\ path_ref' = path_ref /\ cp # <<>>) ]_vars

\* C16, witness: a retrace failed at the far end of cable 15, the FrontPorts
\* F2 and F3 of the four-position RearPorts R2 and R3.
C16_Witness ==
    /\ pc = "returned"
    /\ caller = "retrace"
    /\ ret.kind = "Error"
    /\ 15 \in DOMAIN cable
    /\ path # <<>>
    /\ Last(path) = <<object_to_path_node(F2), object_to_path_node(F3)>>

\* C17: no hop-group of a returned path is empty. (A cable with no
\* termination at its far end ends the trace with an error; a RearPort with
\* no FrontPort at the selected position ends the path at that RearPort.)
C17_NoEmptyHopGroup ==
    Returned => \A i \in 1..Len(ret.path) : ret.path[i] # <<>>

\* C17, witness: a path was returned that ends at RearPort R3, reached with
\* position 1 on the stack, where R3 has no FrontPort.
C17_Witness ==
    /\ Returned
    /\ terminations = <<>>
    /\ position_stack = <<>>
    /\ Len(ret.path) = 6
    /\ Last(ret.path) = <<object_to_path_node(R3)>>
    /\ ret.path[3] = <<object_to_path_node(F4)>>

\* The coming pass reaches FrontPorts that all sit on one RearPort of
\* several positions.
PushCase ==
    /\ CrossesLink
    /\ FarEnd # <<>>
    /\ \A i \in 1..Len(FarEnd) : FarEnd[i] \in FrontPorts
    /\ \A i \in 1..Len(FarEnd) : rear_port(FarEnd[i]) = rear_port(FarEnd[1])
    /\ positions(rear_port(FarEnd[1])) > 1

\* The coming pass reaches a single RearPort of several positions with a
\* position on the stack.
PopCase ==
    /\ CrossesLink
    /\ Len(FarEnd) = 1
    /\ FarEnd[1] \in RearPorts
    /\ positions(FarEnd[1]) > 1
    /\ position_stack # <<>>

\* C18: a pass that reaches FrontPorts of one RearPort of several positions
\* pushes their positions and goes on from that RearPort; a pass that
\* reaches a single RearPort of several positions with a non-empty stack
\* pops the entry pushed last and goes on from exactly the FrontPorts of
\* that RearPort at the popped positions; every other pass leaves the stack
\* as it is.
C18_PositionStack ==
    [][ PassTaken =>
          /\ PushCase =>
                /\ position_stack' = Append(position_stack,
                      [i \in 1..Len(FarEnd) |-> rear_port_position(FarEnd[i])])
                /\ terminations' = <<rear_port(FarEnd[1])>>
                /\ pc' = "loop"
          /\ PopCase =>
                /\ position_stack' = SubSeq(position_stack, 1, Len(position_stack) - 1)
                /\ Range(terminations') =
                      {fp \in FrontPorts :
                          /\ rear_port(fp) = FarEnd[1]
                          /\ rear_port_position(fp) \in Range(Last(position_stack))}
                /\ Len(terminations') = Cardinality(Range(terminations'))
          /\ (~PushCase /\ ~PopCase) => position_stack' = position_stack ]_vars

\* C18, witness: on the trunk the position of F4 (1) was pushed at R2 and
\* that of F3 (3) at R3; the walk went on from F5, position 3 of R4, then
\* from F6, position 1 of R5, and the stack is empty again.
C18_Witness ==
    /\ pc = "loop"
    /\ terminations = <<F6>>
    /\ position_stack = <<>>
    /\ Len(path) = 12
    /\ path[3] = <<object_to_path_node(F4)>>
    /\ path[6] = <<object_to_path_node(F3)>>
    /\ path[10] = <<object_to_path_node(F5)>>
    /\ Last(path) = <<object_to_path_node(R5)>>

\* C19: in a returned path the hop-group after a WirelessLink is the
\* interface of the link that the hop-group before it is not: interface_b
\* after interface_a, interface_a after interface_b, never the near end again.
C19_WirelessFarEnd ==
    Returned =>
        \A i \in 2..Len(ret.path) - 1 :
            (ret.path[i] # <<>> /\ ret.path[i][1][1] = "wirelesslink") =>
                LET link == wireless[ret.path[i][1][2]]
                    a == <<object_to_path_node(link.interface_a)>>
                    b == <<object_to_path_node(link.interface_b)>>
                IN /\ ret.path[i + 1] # ret.path[i - 1]
                   /\ ret.path[i - 1] = a => ret.path[i + 1] = b
                   /\ ret.path[i - 1] = b => ret.path[i + 1] = a

\* The object a node names is one a trace passes through.
PassThrough(n) ==
    path_node_to_object(n) \in FrontPorts \cup RearPorts \cup CircuitTerminations

\* C20: a returned path with is_complete ends with the far-end hop-group of
\* a link, no termination of which is a FrontPort, a RearPort or a
\* CircuitTermination, and is not split.
C20_CompleteAtEndpoint ==
    (Returned /\ ret.is_complete) =>
        /\ Len(ret.path) >= 3
        /\ IsLinkGroup(ret.path[Len(ret.path) - 1])
        /\ \A i \in 1..Len(Last(ret.path)) : ~PassThrough(Last(ret.path)[i])
        /\ ~ret.is_split

====
